---- MODULE Spec2Model ----
(***************************************************************************)
(* Minimal Skyframe (src/python/skyframe.py): restart-based evaluation     *)
(* with signaling.  Graph, Environment and Executor are modelled as they   *)
(* are written; one loop iteration of Executor.evaluate is one action.     *)
(***************************************************************************)
EXTENDS Integers, Sequences, FiniteSets, TLC

VARIABLES
    functions,     \* Executor.functions: key class name -> SkyFunction
    nodes,         \* Graph.nodes: key -> value (None if not done)
    reverse_deps,  \* Graph.reverse_deps: key -> set of parent keys
    waiting_on,    \* Graph.waiting_on: key -> count of unsignaled deps
    in_flight,     \* Graph.in_flight: set of keys
    queue,         \* Executor.queue
    key,           \* the local `key` of evaluate (parameter, then loop variable)
    pc,            \* where the executor is: idle, loop, returned, aborted
    result,        \* what the last evaluate() returned
    root,          \* the argument of the running evaluate() call
    calls,         \* number of evaluate() calls made on this Executor
    invoked,       \* key -> number of compute invocations
    finished,      \* key -> number of compute invocations that returned a value
    raised,        \* the keys whose iteration ended in a raised fault
    observed,      \* values get_value handed to a requester: <<requester, dep, value>>
    enqueued,      \* keys appended to the queue so far in this call
    lastStep       \* what the last loop iteration did

vars == <<functions, nodes, reverse_deps, waiting_on, in_flight, queue, key,
          pc, result, root, calls, invoked, finished, raised, observed, enqueued,
          lastStep>>

(***************************************************************************)
(* Bounds of the model.                                                    *)
(***************************************************************************)
NumKeys == 2      \* keys of the enumerated test tables
MaxEdges == 3     \* get_value calls written in one enumerated test table
MaxCalls == 2     \* evaluate() calls on one Executor
MaxInvocations == 6   \* where the invocation counters stop counting

(***************************************************************************)
(* Python values.  None is the empty tuple, any other value v is <<v>>.    *)
(***************************************************************************)
None == <<>>
Some(v) == <<v>>
IsNone(o) == o = None
Unwrap(o) == o[1]

\* str(x) as an f-string renders it
Str(o) == IF IsNone(o) THEN "None" ELSE Unwrap(o)

(***************************************************************************)
(* str methods used by FileFunction.                                       *)
(***************************************************************************)
endswith(s, suffix) ==
    /\ Len(s) >= Len(suffix)
    /\ SubSeq(s, Len(s) - Len(suffix) + 1, Len(s)) = suffix

\* s.split(sep) for a one-character sep: the pieces between separators
RECURSIVE SplitFrom(_, _, _, _)
SplitFrom(s, sep, i, start) ==
    IF i > Len(s) THEN <<SubSeq(s, start, Len(s))>>
    ELSE IF SubSeq(s, i, i) = sep
         THEN <<SubSeq(s, start, i - 1)>> \o SplitFrom(s, sep, i + 1, i + 1)
         ELSE SplitFrom(s, sep, i + 1, start)

split(s, sep) == SplitFrom(s, sep, 1, 1)

\* sep.join(parts)
RECURSIVE join(_, _)
join(sep, parts) ==
    IF Len(parts) = 0 THEN ""
    ELSE IF Len(parts) = 1 THEN parts[1]
    ELSE parts[1] \o sep \o join(sep, Tail(parts))

\* parts[:-1]
ButLast(parts) == SubSeq(parts, 1, Len(parts) - 1)

(***************************************************************************)
(* SkyKeys: equal iff same class and same payload.                         *)
(***************************************************************************)
MkKey(kind, path, n) == [kind |-> kind, path |-> path, n |-> n]
FileStateKey(path) == MkKey("FileStateKey", path, 0)
FileKey(path) == MkKey("FileKey", path, 0)
ArtifactKey(path) == MkKey("ArtifactKey", path, 0)
ArtifactNestedSetKey(n) == MkKey("ArtifactNestedSetKey", "", n)
\* a key class of a caller-supplied Function
TestKey(name) == MkKey("TestKey", name, 0)

\* type(key).__name__
TypeName(k) == k.kind

(***************************************************************************)
(* Graph                                                                   *)
(***************************************************************************)
\* a function extended or overwritten at one point
Put(f, k, v) == [x \in DOMAIN f \cup {k} |-> IF x = k THEN v ELSE f[x]]

\* a get_or_create that resets the node it is asked for
get_or_create_always(g, k) ==
    [g EXCEPT !.nodes = Put(g.nodes, k, None),
              !.reverse_deps = Put(g.reverse_deps, k, {}),
              !.waiting_on = Put(g.waiting_on, k, 0)]

\* Graph.get_or_create on the graph fields of a record g
get_or_create(g, k) ==
    IF k \notin DOMAIN g.nodes
    THEN [g EXCEPT !.nodes = Put(g.nodes, k, None),
                   !.reverse_deps = Put(g.reverse_deps, k, {}),
                   !.waiting_on = Put(g.waiting_on, k, 0)]
    ELSE g

is_done(g, k) == k \in DOMAIN g.nodes /\ ~IsNone(g.nodes[k])

\* self.graph.nodes.get(key)
NodesGet(g, k) == IF k \in DOMAIN g.nodes THEN g.nodes[k] ELSE None

(***************************************************************************)
(* Environment: one per compute invocation.  An environment record holds   *)
(* the graph and queue it was bound to (shared with the executor), its     *)
(* own _key, _missing and _new_deps, and `ret`, what the last get_value    *)
(* returned.                                                               *)
(***************************************************************************)
Environment(g, current_key) ==
    [nodes |-> g.nodes, reverse_deps |-> g.reverse_deps,
     waiting_on |-> g.waiting_on, in_flight |-> g.in_flight,
     queue |-> g.queue, observed |-> g.observed, enqueued |-> g.enqueued,
     key |-> current_key, missing |-> FALSE, new_deps |-> <<>>, ret |-> None]

\* the value get_value returns for a dependency that is done
StoredValue(e, dep_key) == e.nodes[dep_key]

\* a get_value that enqueues without looking at in_flight
NotInFlightUnchecked(e, dep_key) == TRUE

\* "Only enqueue if not already in-flight"
NotInFlight(e, dep_key) == dep_key \notin e.in_flight

\* an edge registration that overwrites the parent set instead of adding to it
RegisterEdgeOverwrites(e, dep_key) ==
    IF e.key \notin e.reverse_deps[dep_key]
    THEN LET e1 == [e EXCEPT !.reverse_deps[dep_key] = {e.key},
                             !.new_deps = Append(@, dep_key)]
         IN IF NotInFlight(e1, dep_key)
            THEN [e1 EXCEPT !.in_flight = @ \cup {dep_key},
                            !.queue = Append(@, dep_key),
                            !.enqueued = @ \cup {dep_key}]
            ELSE e1
    ELSE e

\* an edge registration that does not look whether the edge is there already
RegisterEdgeUnguarded(e, dep_key) ==
    LET e1 == [e EXCEPT !.reverse_deps[dep_key] = @ \cup {e.key},
                        !.new_deps = Append(@, dep_key)]
    IN IF NotInFlight(e1, dep_key)
       THEN [e1 EXCEPT !.in_flight = @ \cup {dep_key},
                       !.queue = Append(@, dep_key),
                       !.enqueued = @ \cup {dep_key}]
       ELSE e1

\* an edge registration that enqueues whatever is not in the queue
RegisterEdgeIfNotQueued(e, dep_key) ==
    LET e1 == IF e.key \notin e.reverse_deps[dep_key]
              THEN [e EXCEPT !.reverse_deps[dep_key] = @ \cup {e.key},
                             !.new_deps = Append(@, dep_key)]
              ELSE e
    IN IF \A i \in DOMAIN e1.queue : e1.queue[i] # dep_key
       THEN [e1 EXCEPT !.in_flight = @ \cup {dep_key},
                       !.queue = Append(@, dep_key),
                       !.enqueued = @ \cup {dep_key}]
       ELSE e1

\* "register reverse edge (parent tracking)", first time only
RegisterEdge(e, dep_key) ==
    IF e.key \notin e.reverse_deps[dep_key]
    THEN LET e1 == [e EXCEPT !.reverse_deps[dep_key] = @ \cup {e.key},
                             !.new_deps = Append(@, dep_key)]
         IN IF NotInFlight(e1, dep_key)
            THEN [e1 EXCEPT !.in_flight = @ \cup {dep_key},
                            !.queue = Append(@, dep_key),
                            !.enqueued = @ \cup {dep_key}]
            ELSE e1
    ELSE e

\* a get_value that forgets to set _missing
MarkMissingForgotten(e) == e

\* self._missing = True
MarkMissing(e) == [e EXCEPT !.missing = TRUE]

\* a done branch that records the reverse edge before it returns
DoneHitRecordsEdge(e, dep_key) ==
    [e EXCEPT !.ret = StoredValue(e, dep_key),
              !.observed = @ \cup {<<e.key, dep_key, StoredValue(e, dep_key)>>},
              !.reverse_deps[dep_key] = @ \cup {e.key}]

\* "If done, return the value"
DoneHit(e, dep_key) ==
    [e EXCEPT !.ret = StoredValue(e, dep_key),
              !.observed = @ \cup {<<e.key, dep_key, StoredValue(e, dep_key)>>}]

get_value(e0, dep_key) ==
    LET e == get_or_create(e0, dep_key)
    IN IF is_done(e, dep_key)
       THEN DoneHit(e, dep_key)
       ELSE [MarkMissing(RegisterEdge(e, dep_key)) EXCEPT !.ret = None]

nodes_missing(e) == e.missing

(***************************************************************************)
(* SkyFunctions.  compute(key, env) ends in one of three ways: a value,    *)
(* None (not finished), or a raised fault.  An outcome record holds the    *)
(* environment the invocation left behind.                                 *)
(***************************************************************************)
Returns(e, v) == [env |-> e, result |-> v, fault |-> FALSE]
Raises(e) == [env |-> e, result |-> None, fault |-> TRUE]

\* "Reads raw file content from disk (leaf node)"
FileStateFunction_compute(k, e) ==
    Returns(e, Some("content(" \o k.path \o ")"))

\* the parent directory FileFunction asks for
ParentPath(path) == join("/", ButLast(split(path, "/"))) \o "/"

\* "Resolves a file, checking parent directory first"
FileFunction_compute(k, e) ==
    LET e1 == IF ~endswith(k.path, "/")
              THEN get_value(e, FileKey(ParentPath(k.path)))
              ELSE e
        e2 == get_value(e1, FileStateKey(k.path))
        state == e2.ret
    IN IF nodes_missing(e2) THEN Returns(e2, None)
       ELSE Returns(e2, Some("File[" \o Str(state) \o "]"))

\* a path joined without its separator
ArtifactFileNoSlash(path) == "/workspace" \o path

\* the workspace file an artifact wraps
ArtifactFile(path) == "/workspace/" \o path

\* "Wraps a file as a build artifact"
ArtifactFunction_compute(k, e) ==
    LET e1 == get_value(e, FileKey(ArtifactFile(k.path)))
        file_val == e1.ret
    IN IF nodes_missing(e1) THEN Returns(e1, None)
       ELSE Returns(e1, Some("Artifact(" \o Str(file_val) \o ")"))

\* "Collects multiple artifacts into a set"
ArtifactNestedSetFunction_compute(k, e) ==
    LET e1 == get_value(e, ArtifactKey("hello.py"))
        a1 == e1.ret
        e2 == get_value(e1, ArtifactKey("lib.py"))
        a2 == e2.ret
    IN IF nodes_missing(e2) THEN Returns(e2, None)
       ELSE Returns(e2, Some("NestedSet{" \o Str(a1) \o ", " \o Str(a2) \o "}"))

(***************************************************************************)
(* A caller-supplied Function, given by a table: for each key the          *)
(* get_value calls its compute makes, in order, each marked with whether   *)
(* compute checks nodes_missing() right after it, and whether compute      *)
(* raises instead of returning its value.  It always checks                *)
(* nodes_missing() before it returns a value.                              *)
(***************************************************************************)
Req(name, check) == [dep |-> TestKey(name), check |-> check]
Program(reqs, raises) == [reqs |-> reqs, raises |-> raises]

RECURSIVE TestRun(_, _, _, _, _)
TestRun(k, prog, e, i, vals) ==
    IF i > Len(prog.reqs)
    THEN IF nodes_missing(e) THEN Returns(e, None)
         ELSE IF prog.raises THEN Raises(e)
         ELSE Returns(e, Some(k.path \o "(" \o join(",", vals) \o ")"))
    ELSE LET e1 == get_value(e, prog.reqs[i].dep)
         IN IF prog.reqs[i].check /\ nodes_missing(e1)
            THEN Returns(e1, None)
            ELSE TestRun(k, prog, e1, i + 1, Append(vals, Str(e1.ret)))

TestFunction_compute(table, k, e) == TestRun(k, table[k], e, 1, <<>>)

\* the registered Function objects
SkyFunction(cls) == [cls |-> cls, table |-> <<>>]
TestFunction(table) == [cls |-> "TestFunction", table |-> table]

\* func.compute(key, env)
compute(func, k, e) ==
    CASE func.cls = "FileStateFunction" -> FileStateFunction_compute(k, e)
      [] func.cls = "FileFunction" -> FileFunction_compute(k, e)
      [] func.cls = "ArtifactFunction" -> ArtifactFunction_compute(k, e)
      [] func.cls = "ArtifactNestedSetFunction" -> ArtifactNestedSetFunction_compute(k, e)
      [] func.cls = "TestFunction" -> TestFunction_compute(func.table, k, e)

(***************************************************************************)
(* Executor.  The graph and the queue the executor owns are one record.    *)
(***************************************************************************)
G ==
    [nodes |-> nodes, reverse_deps |-> reverse_deps, waiting_on |-> waiting_on,
     in_flight |-> in_flight, queue |-> queue, observed |-> observed,
     enqueued |-> enqueued]

SetG(g) ==
    /\ nodes' = g.nodes
    /\ reverse_deps' = g.reverse_deps
    /\ waiting_on' = g.waiting_on
    /\ in_flight' = g.in_flight
    /\ queue' = g.queue
    /\ observed' = g.observed
    /\ enqueued' = g.enqueued

\* the graph an environment leaves to the executor
GraphOf(e) ==
    [nodes |-> e.nodes, reverse_deps |-> e.reverse_deps,
     waiting_on |-> e.waiting_on, in_flight |-> e.in_flight,
     queue |-> e.queue, observed |-> e.observed, enqueued |-> e.enqueued]

NoKey == MkKey("", "", 0)
Bump(f, k) ==
    LET n == IF k \in DOMAIN f THEN f[k] ELSE 0
    IN Put(f, k, IF n < MaxInvocations THEN n + 1 ELSE n)
Last(op, k, woken) == [op |-> op, key |-> k, woken |-> woken]

\* evaluate(key), up to the loop
Seed(g, r) ==
    [get_or_create(g, r) EXCEPT !.in_flight = @ \cup {r},
                                !.queue = Append(@, r),
                                !.enqueued = {r}]

\* key = self.queue.pop(0)
Popped(g) == [g EXCEPT !.queue = Tail(@)]

\* a loop that never takes the "cached" branch
CachedNever(g, k) == FALSE

\* "if self.graph.is_done(key)": the iteration is a cache hit
Cached(g, k) == is_done(g, k)

\* whether functions[type(key).__name__] finds a Function
Registered(fns, k) == TypeName(k) \in DOMAIN fns

\* env = Environment(...); func = self.functions[...]; result = func.compute(key, env)
Invocation(fns, g, k) ==
    IF Registered(fns, k)
    THEN compute(fns[TypeName(k)], k, Environment(Popped(g), k))
    ELSE Raises(Environment(Popped(g), k))

\* a readiness test that is off by one
ReadyOffByOne(remaining) == remaining <= 1

\* "if remaining == 0": the parent is re-enqueued
Ready(remaining) == remaining = 0

\* the orders in which "for parent in self.graph.reverse_deps[key]" can run
Orders(S) ==
    {o \in [1..Cardinality(S) -> S] : \A i, j \in DOMAIN o : o[i] = o[j] => i = j}

\* "Signal parents"
RECURSIVE SignalParents(_, _, _)
SignalParents(g, order, i) ==
    IF i > Len(order) THEN g
    ELSE LET parent == order[i]
             g1 == [g EXCEPT !.waiting_on[parent] = @ - 1]
             remaining == g1.waiting_on[parent]
             g2 == IF Ready(remaining)
                   THEN [g1 EXCEPT !.queue = Append(@, parent),
                                   !.enqueued = @ \cup {parent}]
                   ELSE g1
         IN SignalParents(g2, order, i + 1)

\* a completion that stores the value and signals nobody
FinishNoSignal(e, k, v, order) ==
    [GraphOf(e) EXCEPT !.nodes[k] = v, !.in_flight = @ \ {k}]

\* "if result is not None": store the value, then signal the parents
Finish(e, k, v, order) ==
    SignalParents([GraphOf(e) EXCEPT !.nodes[k] = v, !.in_flight = @ \ {k}],
                  order, 1)

\* a count that awaits one signal more than there are new dependencies
WaitCountPlusOne(e) == Len(e.new_deps) + 1

\* a count that only tells whether anything new is awaited
WaitCountFlag(e) == IF Len(e.new_deps) > 0 THEN 1 ELSE 0

\* the count a key that is not finished is left waiting on
WaitCount(e) == Len(e.new_deps)

\* a notFinished branch that leaves the counter as it was
WaitNotSet(e, k) == GraphOf(e)

\* "else": self.graph.waiting_on[key] = len(env._new_deps)
Wait(e, k) == [GraphOf(e) EXCEPT !.waiting_on[k] = WaitCount(e)]

\* a loop that swallows the fault and goes on
OnFaultContinue == "loop"

\* where a fault raised inside the loop leaves evaluate()
OnFault == "aborted"

\* the key whose node evaluate() returns: `key`, which the loop has reassigned
ReturnKey(rootKey, loopKey) == loopKey

\* the parents a signal pass appended to the queue
Woken(before, after) ==
    {p \in DOMAIN after.waiting_on :
        Len(SelectSeq(after.queue, LAMBDA x : x = p))
            > Len(SelectSeq(before.queue, LAMBDA x : x = p))}

\* the keys evaluate() can be called with
DemoRoots == {ArtifactNestedSetKey(2), ArtifactKey("hello.py")}
Roots ==
    IF "TestKey" \in DOMAIN functions
    THEN DOMAIN functions["TestKey"].table
    ELSE DemoRoots

Evaluate(r) ==
    /\ pc \in {"idle", "returned", "aborted"}
    /\ calls < MaxCalls
    /\ SetG(Seed(G, r))
    /\ key' = r
    /\ root' = r
    /\ calls' = calls + 1
    /\ pc' = "loop"
    /\ result' = None
    /\ lastStep' = Last("evaluate", r, {})
    /\ UNCHANGED <<functions, invoked, finished, raised>>

\* an iteration that finds the key done: "cached"
StepCached ==
    /\ pc = "loop"
    /\ queue # <<>>
    /\ Cached(Popped(G), Head(queue))
    /\ SetG(Popped(G))
    /\ key' = Head(queue)
    /\ lastStep' = Last("cached", Head(queue), {})
    /\ UNCHANGED <<functions, pc, result, root, calls, invoked, finished, raised>>

\* an iteration whose compute returns a value
StepDone ==
    /\ pc = "loop"
    /\ queue # <<>>
    /\ ~Cached(Popped(G), Head(queue))
    /\ LET k == Head(queue)
           out == Invocation(functions, G, k)
       IN /\ ~out.fault
          /\ ~IsNone(out.result)
          /\ \E order \in Orders(out.env.reverse_deps[k]) :
                LET g2 == Finish(out.env, k, out.result, order)
                IN /\ SetG(g2)
                   /\ lastStep' = Last("done", k, Woken(GraphOf(out.env), g2))
          /\ key' = k
          /\ invoked' = Bump(invoked, k)
          /\ finished' = Bump(finished, k)
    /\ UNCHANGED <<functions, pc, result, root, calls, raised>>

\* an iteration whose compute returns None
StepNotFinished ==
    /\ pc = "loop"
    /\ queue # <<>>
    /\ ~Cached(Popped(G), Head(queue))
    /\ LET k == Head(queue)
           out == Invocation(functions, G, k)
       IN /\ ~out.fault
          /\ IsNone(out.result)
          /\ SetG(Wait(out.env, k))
          /\ key' = k
          /\ invoked' = Bump(invoked, k)
          /\ lastStep' = Last("notFinished", k, {})
    /\ UNCHANGED <<functions, pc, result, root, calls, finished, raised>>

\* an iteration that raises: no Function for the key's class, or compute raises
StepFault ==
    /\ pc = "loop"
    /\ queue # <<>>
    /\ ~Cached(Popped(G), Head(queue))
    /\ LET k == Head(queue)
           out == Invocation(functions, G, k)
       IN /\ out.fault
          /\ SetG(GraphOf(out.env))
          /\ key' = k
          /\ invoked' = IF Registered(functions, k) THEN Bump(invoked, k) ELSE invoked
          /\ raised' = raised \cup {k}
          /\ lastStep' = Last("fault", k, {})
    /\ pc' = OnFault
    /\ UNCHANGED <<functions, result, root, calls, finished>>

\* the queue is empty: return self.graph.nodes.get(key)
Return ==
    /\ pc = "loop"
    /\ queue = <<>>
    /\ result' = NodesGet(G, ReturnKey(root, key))
    /\ pc' = "returned"
    /\ lastStep' = Last("return", key, {})
    /\ UNCHANGED <<functions, nodes, reverse_deps, waiting_on, in_flight, queue,
                   key, root, calls, invoked, finished, raised, observed, enqueued>>

\* one whole evaluate() that takes the first order at every signal pass
RECURSIVE Loop(_, _, _, _)
Loop(fns, g, rootKey, loopKey) ==
    IF g.queue = <<>>
    THEN [returned |-> TRUE, result |-> NodesGet(g, ReturnKey(rootKey, loopKey)),
          nodes |-> g.nodes]
    ELSE LET k == Head(g.queue)
             out == Invocation(fns, g, k)
         IN IF Cached(Popped(g), k) THEN Loop(fns, Popped(g), rootKey, k)
            ELSE IF out.fault
                 THEN [returned |-> FALSE, result |-> None, nodes |-> out.env.nodes]
            ELSE IF ~IsNone(out.result)
                 THEN Loop(fns,
                           Finish(out.env, k, out.result,
                                  CHOOSE o \in Orders(out.env.reverse_deps[k]) : TRUE),
                           rootKey, k)
            ELSE Loop(fns, Wait(out.env, k), rootKey, k)

EmptyGraph ==
    [nodes |-> <<>>, reverse_deps |-> <<>>, waiting_on |-> <<>>, in_flight |-> {},
     queue |-> <<>>, observed |-> {}, enqueued |-> {}]

\* evaluate(rootKey) on a fresh Executor(fns)
FreshRun(fns, rootKey) == Loop(fns, Seed(EmptyGraph, rootKey), rootKey, rootKey)

(***************************************************************************)
(* The Function tables an Executor is constructed with.                    *)
(***************************************************************************)
\* the registration of the demo
DemoFunctions ==
    [c \in {"FileStateKey", "FileKey", "ArtifactKey", "ArtifactNestedSetKey"} |->
        CASE c = "FileStateKey" -> SkyFunction("FileStateFunction")
          [] c = "FileKey" -> SkyFunction("FileFunction")
          [] c = "ArtifactKey" -> SkyFunction("ArtifactFunction")
          [] c = "ArtifactNestedSetKey" -> SkyFunction("ArtifactNestedSetFunction")]

\* the same registration with no Function for FileStateKey
PartialFunctions ==
    [c \in {"FileKey", "ArtifactKey", "ArtifactNestedSetKey"} |-> DemoFunctions[c]]

\* a test table from the programs of its keys
Table(names, progs) ==
    [k \in {TestKey(names[i]) : i \in DOMAIN names} |->
        progs[CHOOSE i \in DOMAIN names : TestKey(names[i]) = k]]

\* compute asks for every name, then checks nodes_missing()
Asks(names) ==
    Program([i \in DOMAIN names |-> Req(names[i], i = Len(names))], FALSE)

Leaf == Asks(<<>>)

\* A -> B -> D, A -> C -> D
Diamond ==
    Table(<<"A", "B", "C", "D">>,
          <<Asks(<<"B", "C">>), Asks(<<"D">>), Asks(<<"D">>), Leaf>>)

\* A asks for B and C, B asks for A: a cycle beside a leaf
CycleLeaf ==
    Table(<<"A", "B", "C">>, <<Asks(<<"B", "C">>), Asks(<<"A">>), Leaf>>)

\* R asks for P, Q and itself; P and Q share leaf L
CycleShared ==
    Table(<<"R", "P", "Q", "L">>,
          <<Asks(<<"P", "Q", "R">>), Asks(<<"L">>), Asks(<<"L">>), Leaf>>)

\* A asks for B, checks, and only then asks for C and D; D is shared with C
Grows ==
    Table(<<"A", "B", "C", "D">>,
          <<Program(<<Req("B", TRUE), Req("C", FALSE), Req("D", TRUE)>>, FALSE),
            Leaf, Asks(<<"D">>), Leaf>>)

\* B raises on its first invocation
LeafRaises ==
    Table(<<"A", "B", "C">>,
          <<Asks(<<"B", "C">>), Program(<<>>, TRUE), Leaf>>)

\* A raises once its dependency is there
ParentRaises ==
    Table(<<"A", "B">>, <<Program(<<Req("B", TRUE)>>, TRUE), Leaf>>)

\* A asks for C, which raises, and for B, which waits for D
RaisesBesideChain ==
    Table(<<"A", "B", "C", "D">>,
          <<Asks(<<"C", "B">>), Asks(<<"D">>), Program(<<>>, TRUE), Leaf>>)

\* A meets C only on its restart, after B has had C computed
LateAsk ==
    Table(<<"A", "B", "C">>,
          <<Program(<<Req("B", TRUE), Req("C", TRUE)>>, FALSE), Asks(<<"C">>), Leaf>>)

\* C asks for B after B has been dequeued and waits for D
SharedWaiting ==
    Table(<<"A", "B", "C", "D">>,
          <<Asks(<<"B", "C">>), Asks(<<"D">>), Asks(<<"B">>), Leaf>>)

\* D is asked for by B and by C; it completes while E has not run yet
TwoWaves ==
    Table(<<"A", "B", "C", "D", "E">>,
          <<Asks(<<"B", "C">>), Asks(<<"D">>), Asks(<<"D", "E">>), Leaf, Leaf>>)

CuratedTables ==
    {Diamond, CycleLeaf, CycleShared, Grows, LeafRaises, ParentRaises,
     RaisesBesideChain, LateAsk, SharedWaiting, TwoWaves}

\* every table over NumKeys keys that writes at most MaxEdges get_value calls
KeyNames == <<"A", "B", "C", "D", "E", "F">>
Names == SubSeq(KeyNames, 1, NumKeys)

Programs(r) ==
    {Program(reqs, FALSE) :
        reqs \in {q \in [1..r -> {Req(Names[i], c) : i \in 1..NumKeys, c \in BOOLEAN}] :
                    r > 0 => q[r].check}}

RECURSIVE ProgramLists(_, _)
ProgramLists(n, budget) ==
    IF n = 0 THEN {<<>>}
    ELSE UNION {{<<p>> \o t : p \in Programs(r), t \in ProgramLists(n - 1, budget - r)} :
                    r \in 0..budget}

EnumeratedTables == {Table(Names, progs) : progs \in ProgramLists(NumKeys, MaxEdges)}

FunctionTables ==
    {DemoFunctions, PartialFunctions}
        \cup {[c \in {"TestKey"} |-> TestFunction(t)] : t \in CuratedTables \cup EnumeratedTables}

(***************************************************************************)
(* The state machine.                                                      *)
(***************************************************************************)
Init ==
    /\ functions \in FunctionTables
    /\ nodes = <<>>
    /\ reverse_deps = <<>>
    /\ waiting_on = <<>>
    /\ in_flight = {}
    /\ queue = <<>>
    /\ key = NoKey
    /\ pc = "idle"
    /\ result = None
    /\ root = NoKey
    /\ calls = 0
    /\ invoked = <<>>
    /\ finished = <<>>
    /\ raised = {}
    /\ observed = {}
    /\ enqueued = {}
    /\ lastStep = Last("init", NoKey, {})

Next ==
    \/ \E r \in Roots : Evaluate(r)
    \/ StepCached
    \/ StepDone
    \/ StepNotFinished
    \/ StepFault
    \/ Return

Spec == Init /\ [][Next]_vars

\* one pass through the body of "while self.queue", or the return after it
Iteration == StepCached \/ StepDone \/ StepNotFinished \/ StepFault \/ Return

\* evaluate() is sequential code: once called, its loop keeps taking iterations
\* until it returns or a fault leaves it; when evaluate() is called is up to
\* the caller.  This is weak fairness of Iteration.  An Iteration is enabled
\* exactly when pc = "loop" (an empty queue enables Return; a key at the head
\* of the queue is cached, or its compute raises, returns None or returns a
\* value), so the fairness condition is written with that state predicate in
\* the place of ENABLED <<Iteration>>_vars.
LoopKeepsRunning == []<>(pc # "loop") \/ []<><<Iteration>>_vars

FairSpec == Spec /\ LoopKeepsRunning

(***************************************************************************)
(* Properties                                                              *)
(***************************************************************************)
Done(k) == k \in DOMAIN nodes /\ nodes[k] # None
Count(f, k) == IF k \in DOMAIN f THEN f[k] ELSE 0
InQueue(k) == \E i \in DOMAIN queue : queue[i] = k
FirstCall == calls = 1
TestTable(t) == functions = [c \in {"TestKey"} |-> TestFunction(t)]

\* the dependencies k has recorded: the keys whose reverse_deps hold k
Recorded(k) == {d \in DOMAIN reverse_deps : k \in reverse_deps[d]}

\* C1: when evaluate(rootKey) on a fresh graph returns, the value it returns is
\* the value stored for rootKey itself.  (The claim also says rootKey is DONE
\* by then; this is its first half, which the claim implies.)
C1_ReturnsRootValue ==
    (FirstCall /\ pc = "returned") => result = NodesGet(G, root)

\* C2: a key's compute returns a value at most once, exactly once for a DONE
\* key; compute is never invoked for a key that is DONE; and every value
\* get_value handed out for a key is the value stored for it.
C2_Memoization ==
    /\ [](/\ \A k \in DOMAIN nodes : Count(finished, k) = IF Done(k) THEN 1 ELSE 0
          /\ \A o \in observed : Done(o[2]) /\ o[3] = nodes[o[2]])
    /\ [][\A k \in DOMAIN nodes :
            Done(k) => Count(invoked', k) = Count(invoked, k)]_vars

\* a key two distinct parents asked for after it was DONE, both handed its value
C2_Witness ==
    /\ FirstCall
    /\ \E o1, o2 \in observed :
          /\ o1[1] # o2[1]
          /\ o1[2] = o2[2]
          /\ Count(finished, o1[2]) = 1
          /\ o1[3] = o2[3]

\* C3: in the first evaluate(), a key that has returned notFinished is in the
\* queue only if every dependency it has recorded is DONE.
C3_ReadyNoEarlier ==
    FirstCall =>
        \A k \in DOMAIN nodes :
            (InQueue(k) /\ Count(invoked, k) > 0 /\ ~Done(k)) =>
                \A d \in Recorded(k) : Done(d)

\* a restarted parent, whose recorded dependencies grew and one of which is
\* shared with another parent, is re-enqueued by the last of them
C3_Witness ==
    /\ FirstCall
    /\ lastStep.op = "done"
    /\ \E p \in lastStep.woken :
          /\ Count(invoked, p) >= 2
          /\ Cardinality(Recorded(p)) >= 3
          /\ \E d \in Recorded(p) : Cardinality(reverse_deps[d]) >= 2

\* C4: evaluate() never finishes while a key it placed in the work queue is
\* not DONE.
C4_NoKeyAbandoned ==
    (FirstCall /\ pc = "returned") => \A k \in enqueued : Done(k)

A == TestKey("A")
B == TestKey("B")
C == TestKey("C")
D == TestKey("D")
DiamondRun == TestTable(Diamond) /\ FirstCall /\ root = A

\* C5: in the diamond A -> B -> D, A -> C -> D, D's compute is invoked at most
\* once, exactly once by the time evaluate(A) returns, and A, once it has
\* returned notFinished, is in the queue only when both B and C are DONE.
C5_Diamond ==
    DiamondRun =>
        /\ Count(invoked, D) <= 1
        /\ pc = "returned" => Count(invoked, D) = 1
        /\ (InQueue(A) /\ Count(invoked, A) > 0) => Done(B) /\ Done(C)

\* D signaled C before B, and A has just been re-enqueued by the second of them
C5_Witness ==
    /\ DiamondRun
    /\ lastStep.op = "done"
    /\ lastStep.key = B
    /\ lastStep.woken = {A}
    /\ Done(C)
    /\ Count(invoked, D) = 1

\* the keys that reach k along recorded edges: its parents, their parents, ...
RECURSIVE Closure(_)
Closure(S) ==
    LET T == S \cup UNION {reverse_deps[x] : x \in S}
    IN IF T = S THEN S ELSE Closure(T)

Ancestors(k) == Closure(reverse_deps[k])

\* k's recorded dependency chain reaches k itself
OnCycle(k) == k \in DOMAIN reverse_deps /\ k \in Ancestors(k)
CycleRecorded == \E k \in DOMAIN reverse_deps : OnCycle(k)

NestedSetRun ==
    functions = DemoFunctions /\ FirstCall /\ root = ArtifactNestedSetKey(2)

\* C7: with the four registered Functions, evaluate(ArtifactNestedSetKey(2)) on
\* a fresh graph returns exactly the nested set of the two artifacts.
C7_DemoResult ==
    (NestedSetRun /\ pc = "returned") =>
        result = Some("NestedSet{Artifact(File[content(/workspace/hello.py)]), "
                      \o "Artifact(File[content(/workspace/lib.py)])}")

\* the demo evaluation has returned, with all nine nodes in the graph
C7_Witness ==
    /\ NestedSetRun
    /\ pc = "returned"
    /\ result # None
    /\ Cardinality(DOMAIN nodes) = 9

FileNodes == {k \in DOMAIN nodes : TypeName(k) = "FileKey"}
FileStateNodes == {k \in DOMAIN nodes : TypeName(k) = "FileStateKey"}

\* C8 as stated: in the demo evaluation the compute of every FileStateKey and
\* FileKey node is invoked at most one time, exactly one by the return.
C8_InvokedOnce ==
    NestedSetRun =>
        \A k \in FileNodes \cup FileStateNodes :
            /\ Count(invoked, k) <= 1
            /\ pc = "returned" => Count(invoked, k) = 1

\* C8 as amended: every FileStateKey node's compute is invoked once; every
\* FileKey node's compute returns a value once, and is invoked twice: a first
\* attempt that returns notFinished and one restart.
C8_FinishedOnce ==
    NestedSetRun =>
        /\ \A k \in FileStateNodes : Count(invoked, k) <= 1
        /\ \A k \in FileNodes : Count(invoked, k) <= 2 /\ Count(finished, k) <= 1
        /\ pc = "returned" =>
              /\ \A k \in FileStateNodes :
                    Count(invoked, k) = 1 /\ Count(finished, k) = 1
              /\ \A k \in FileNodes :
                    Count(invoked, k) = 2 /\ Count(finished, k) = 1

\* the demo evaluation has returned with its three File and three FileState nodes
C8_Witness ==
    /\ NestedSetRun
    /\ pc = "returned"
    /\ FileNodes = {FileKey("/workspace/hello.py"), FileKey("/workspace/lib.py"),
                    FileKey("/workspace/")}
    /\ Cardinality(FileStateNodes) = 3
    /\ \A k \in FileNodes : Count(invoked, k) = 2

\* C9: a run of evaluate(root) on a fresh graph returns the value and leaves
\* the key-to-value map of every other such run with the same Functions and
\* root: those of the run that takes the first order at every signal pass.
C9_Determinism ==
    (FirstCall /\ pc = "returned") =>
        /\ result = FreshRun(functions, root).result
        /\ nodes = FreshRun(functions, root).nodes

\* C10: a fault (no Function for the key's class, or compute raises) ends
\* evaluate() in the iteration that raised it, with no value returned; until
\* evaluate() is called again nothing is dequeued, invoked or marked DONE.
C10_FailFast ==
    /\ [](lastStep.op = "fault" => pc = "aborted" /\ result = None)
    /\ [][(pc = "aborted" /\ calls' = calls) =>
            UNCHANGED <<nodes, queue, key, invoked, finished, result, pc>>]_vars

\* a key of a class with no Function has just aborted evaluate(), keys still queued
C10_Witness ==
    /\ FirstCall
    /\ pc = "aborted"
    /\ lastStep.op = "fault"
    /\ ~Registered(functions, lastStep.key)
    /\ queue # <<>>
    /\ \E k \in DOMAIN nodes : ~Done(k)

\* C11: a node has a value exactly when its compute has returned one, and a
\* value, once stored, is never changed or removed by any later step.
C11_DoneIsTerminal ==
    /\ [](\A k \in DOMAIN nodes : (nodes[k] # None) <=> (Count(finished, k) > 0))
    /\ [][\A k \in DOMAIN nodes :
            nodes[k] # None => k \in DOMAIN nodes' /\ nodes'[k] = nodes[k]]_vars

\* a DONE key has been dequeued again, after a get_value had read its value
C11_Witness ==
    /\ lastStep.op = "cached"
    /\ Done(lastStep.key)
    /\ \E o \in observed : o[2] = lastStep.key

\* C12: no step removes a key from the graph, a parent from a reverse_deps set,
\* or a dependency from the set a key has recorded.
C12_Monotonic ==
    [][/\ DOMAIN nodes \subseteq DOMAIN nodes'
       /\ \A k \in DOMAIN reverse_deps :
            /\ k \in DOMAIN reverse_deps'
            /\ reverse_deps[k] \subseteq reverse_deps'[k]
       /\ \A k \in DOMAIN nodes :
            Recorded(k) \subseteq {d \in DOMAIN reverse_deps' : k \in reverse_deps'[d]}]_vars

\* a Function has been restarted and found its dependency missing; the edges
\* of its earlier attempt are still there
C12_Witness ==
    /\ FirstCall
    /\ lastStep.op = "notFinished"
    /\ Count(invoked, lastStep.key) >= 2
    /\ \E d1, d2 \in Recorded(lastStep.key) : Done(d1) /\ ~Done(d2)

\* a key whose latest invocation returned notFinished, on a graph that no
\* fault has touched
Pending(k) ==
    /\ raised = {}
    /\ Count(invoked, k) > 0
    /\ ~Done(k)

AllRecordedDone(k) == \A d \in Recorded(k) : Done(d)

\* C13: as long as no fault has been raised, the signal pass that completes
\* the last outstanding recorded dependency of a waiting parent appends that
\* parent to the queue, and after every iteration each key that returned
\* notFinished and has all its recorded dependencies DONE is in the queue.
C13_ReadyNoLater ==
    /\ [](\A k \in DOMAIN nodes : (Pending(k) /\ AllRecordedDone(k)) => InQueue(k))
    /\ [][(raised = {} /\ lastStep'.op = "done") =>
            \A p \in reverse_deps'[lastStep'.key] :
                (~Done(p)' /\ AllRecordedDone(p)') => p \in lastStep'.woken]_vars

\* a signal pass has just woken a parent that had recorded two dependencies
C13_Witness ==
    /\ lastStep.op = "done"
    /\ \E p \in lastStep.woken :
          /\ Cardinality(Recorded(p)) >= 2
          /\ AllRecordedDone(p)
          /\ InQueue(p)

\* C14: while no fault has been raised, waiting_on[k] is never negative; it
\* never exceeds the dependencies k has recorded; a notFinished iteration sets
\* it to the number of dependencies recorded in that invocation, and no other
\* step raises it.
C14_CounterBounds ==
    /\ [](\A k \in DOMAIN waiting_on :
            /\ raised = {} => 0 <= waiting_on[k]
            /\ waiting_on[k] <= Cardinality(Recorded(k)))
    /\ [][/\ lastStep'.op = "notFinished" =>
               LET k == lastStep'.key
               IN waiting_on'[k] =
                      Cardinality({d \in DOMAIN reverse_deps' : k \in reverse_deps'[d]}
                                      \ Recorded(k))
          /\ \A p \in DOMAIN waiting_on :
                (lastStep'.op = "notFinished" /\ lastStep'.key = p)
                \/ waiting_on'[p] <= waiting_on[p]]_vars

\* a restarted key has recorded one more dependency and waits for it alone,
\* while a dependency of its first attempt has signalled some other parent
C14_Witness ==
    /\ raised = {}
    /\ lastStep.op = "notFinished"
    /\ Count(invoked, lastStep.key) >= 2
    /\ waiting_on[lastStep.key] = 1
    /\ Cardinality(Recorded(lastStep.key)) >= 2

Occurrences(k) == Len(SelectSeq(queue, LAMBDA x : x = k))

\* C15: in the first evaluate() call, and in later calls as long as no fault
\* has been raised, no key is in the queue twice.
C15_QueueDeduplicated ==
    (FirstCall \/ raised = {}) => \A k \in DOMAIN nodes : Occurrences(k) <= 1

\* a key that two parents had asked for has completed; the queue holds a parent
\* its signal pass re-enqueued and a dependency get_value enqueued, once each
C15_Witness ==
    /\ lastStep.op = "done"
    /\ \E p \in lastStep.woken : Occurrences(p) = 1
    /\ \E d \in DOMAIN nodes : Occurrences(d) = 1 /\ Count(invoked, d) = 0
    /\ Cardinality(reverse_deps[lastStep.key]) >= 2

\* C16 as stated: whoever has been handed the value of a DONE dependency is in
\* that dependency's reverse_deps set.
C16_EdgeForDoneDep ==
    \A o \in observed : o[1] \in reverse_deps[o[2]]

\* C16 as amended: get_value on a DONE dependency returns the stored value and
\* changes nothing else: no edge, no new dependency, nothing enqueued, nothing
\* marked missing.
C16_DoneDepOnlyReturns ==
    \A p, d \in DOMAIN nodes :
        Done(d) =>
            LET e == Environment(G, p)
                r == get_value(e, d)
            IN /\ r.ret = nodes[d]
               /\ r.reverse_deps = reverse_deps
               /\ r.new_deps = e.new_deps
               /\ r.queue = queue
               /\ r.in_flight = in_flight
               /\ r.waiting_on = waiting_on
               /\ r.nodes = nodes
               /\ ~nodes_missing(r)
               /\ \A o \in observed : o[2] = d => o[3] = r.ret

\* a restarted Function has asked for a key it had not asked for before, got
\* its value, and returned its own; no edge between the two exists
C16_Witness ==
    /\ lastStep.op = "done"
    /\ \E o \in observed :
          /\ o[1] = lastStep.key
          /\ Done(o[2])
          /\ o[1] \notin reverse_deps[o[2]]

\* the dependencies the key of the last iteration has recorded and still misses
MissingOfLast == {d \in Recorded(lastStep.key) : ~Done(d)}

\* C17 as stated: after an iteration that returned notFinished, every missing
\* dependency of its key is in the queue, also one that was dequeued earlier
\* and waits.  (Cycles set aside: with one the key may ask for itself.)
C17_MissingDepQueued ==
    (FirstCall /\ lastStep.op = "notFinished" /\ ~CycleRecorded) =>
        \A d \in MissingOfLast : InQueue(d)

\* C17 as amended: get_value on a dependency that is not DONE returns None
\* and marks the invocation; after a notFinished iteration every missing
\* dependency is in in_flight, and it is in the queue exactly if it has not
\* been invoked yet or has been woken: one that was dequeued, returned
\* notFinished and waits is not enqueued again.
C17_MissingDepInFlight ==
    /\ \A p, d \in DOMAIN nodes :
          ~Done(d) =>
              LET r == get_value(Environment(G, p), d)
              IN r.ret = None /\ nodes_missing(r)
    /\ (raised = {} /\ lastStep.op = "notFinished") =>
          \A d \in MissingOfLast :
              /\ d \in in_flight
              /\ InQueue(d) <=> (Count(invoked, d) = 0 \/ AllRecordedDone(d))

\* with no cycle around, a key has just asked for a dependency that had been
\* dequeued before and waits for a dependency of its own
C17_Witness ==
    /\ FirstCall
    /\ lastStep.op = "notFinished"
    /\ ~CycleRecorded
    /\ \E d \in MissingOfLast :
          /\ Count(invoked, d) > 0
          /\ waiting_on[d] > 0
          /\ ~InQueue(d)

\* the keys a Function can ask for: those of the graph and those evaluate()
\* can be called with
Askable == DOMAIN nodes \cup Roots

\* the key of the last iteration asks twice for d in one invocation
AsksTwice(d) ==
    /\ "TestKey" \in DOMAIN functions
    /\ lastStep.key \in DOMAIN functions["TestKey"].table
    /\ LET reqs == functions["TestKey"].table[lastStep.key].reqs
       IN \E i, j \in DOMAIN reqs : i < j /\ reqs[i].dep = d /\ reqs[j].dep = d

\* C18: in any Environment of a reachable graph, a second get_value for a
\* dependency that is not DONE leaves reverse_deps, the new dependencies,
\* in_flight and the queue as the first call left them and returns None
\* again; a notFinished invocation that asked twice for a key waits for it
\* once and has it queued once.
C18_GetValueIdempotent ==
    /\ \A p \in DOMAIN nodes : \A d \in Askable :
          ~Done(d) =>
              LET first == get_value(Environment(G, p), d)
                  second == get_value(first, d)
              IN /\ second.reverse_deps = first.reverse_deps
                 /\ second.new_deps = first.new_deps
                 /\ second.in_flight = first.in_flight
                 /\ second.queue = first.queue
                 /\ second.nodes = first.nodes
                 /\ second.waiting_on = first.waiting_on
                 /\ second.ret = None /\ first.ret = None
                 /\ nodes_missing(second)
    /\ (FirstCall /\ lastStep.op = "notFinished") =>
          \A d \in MissingOfLast :
              AsksTwice(d) => waiting_on[lastStep.key] <= Cardinality(MissingOfLast)

\* an invocation that asked twice for the same missing key has returned
\* notFinished: it waits for that key alone, which is in the queue once
C18_Witness ==
    /\ FirstCall
    /\ lastStep.op = "notFinished"
    /\ \E d \in MissingOfLast :
          /\ AsksTwice(d)
          /\ d # lastStep.key
          /\ waiting_on[lastStep.key] = 1
          /\ reverse_deps[d] = {lastStep.key}
          /\ Occurrences(d) = 1

\* the recorded dependencies of k that are not DONE
Outstanding(k) == {d \in Recorded(k) : ~Done(d)}

\* C19: throughout evaluate() on a fresh graph, waiting_on[k] is the number of
\* recorded dependencies of k that are not DONE, for every key of the graph.
C19_CounterIsOutstanding ==
    FirstCall => \A k \in DOMAIN nodes : waiting_on[k] = Cardinality(Outstanding(k))

\* a restarted key has recorded two more dependencies beside the one its
\* first attempt waited for, and waits for exactly the two
C19_Witness ==
    /\ FirstCall
    /\ lastStep.op = "notFinished"
    /\ Count(invoked, lastStep.key) = 2
    /\ Cardinality(Recorded(lastStep.key)) = 3
    /\ Cardinality(Outstanding(lastStep.key)) = 2
    /\ waiting_on[lastStep.key] = 2

\* the invocation counters count every invocation: none has reached the cap
CountersExact == \A k \in DOMAIN invoked : invoked[k] < MaxInvocations

\* no registered Function raises and every key asked for has a Function
FaultFree ==
    \/ functions = DemoFunctions
    \/ /\ "TestKey" \in DOMAIN functions
       /\ \A k \in DOMAIN functions["TestKey"].table :
             ~functions["TestKey"].table[k].raises

\* C20: every evaluate() call leaves its loop: it returns when no Function
\* raises, dependency cycles included, and otherwise returns or aborts; on a
\* fresh graph a key is invoked at most once more than it has recorded
\* dependencies.
C20_LoopTerminates ==
    /\ (pc = "loop") ~> (IF FaultFree THEN pc = "returned"
                                      ELSE pc \in {"returned", "aborted"})
    /\ [](FirstCall =>
            \A k \in DOMAIN nodes : Count(invoked, k) <= Cardinality(Recorded(k)) + 1)

\* the first evaluate() on a graph with a cycle has returned after it had
\* restarted some key
C20_Witness ==
    /\ FirstCall
    /\ FaultFree
    /\ pc = "returned"
    /\ CycleRecorded
    /\ \E k \in DOMAIN nodes : Count(invoked, k) >= 2
====
